---- MODULE Spec2Model ----
(***************************************************************************)
(* Model of font_7seg (src/src/lib.rs): a seven-segment LED style font for *)
(* embedded_graphics.  The font is a value (size, colours, four rates);    *)
(* draw_string walks the characters of a text, crops one cell per          *)
(* character out of the target surface and issues fill commands into it.   *)
(*                                                                         *)
(* Arithmetic.  The source computes in f32 with the rates 0.2, 0.05, 0.1   *)
(* and 1.2 and then applies floor, ceil or an `as` cast.  The model        *)
(* computes the same expressions over exact rationals (numerator and       *)
(* denominator).  For the rates 0.2, 0.05 and 0.1 the f32 constant is      *)
(* within 2^-26 of the decimal value, less than half an ulp of any         *)
(* product, so a product whose exact value is representable is rounded to  *)
(* it and floor/ceil agree with the rational result.  For 1.2 the same     *)
(* holds for every operand below 25 (5, 10, 15, 20 round to the exact      *)
(* product; 25 * 1.2f32 is 30.000002), and the operand is a segment        *)
(* thickness, which is below 25 for glyph widths up to 120.                *)
(***************************************************************************)
EXTENDS Integers, Sequences, FiniteSets, TLC

None == "None"

(***************************************************************************)
(* Integer helpers: floor, ceil and the truncating `as i32` cast of the    *)
(* rational n/d (d > 0).                                                   *)
(***************************************************************************)
Floor(n, d) == n \div d

Ceil(n, d) == -((-n) \div d)

Trunc(n, d) == IF n >= 0 THEN n \div d ELSE -((-n) \div d)

Min(a, b) == IF a <= b THEN a ELSE b

Max(a, b) == IF a >= b THEN a ELSE b

(***************************************************************************)
(* Rectangles are [x, y, w, h]; a draw target view ("area") is the         *)
(* rectangle it occupies on the surface: bounding_box() of the view is     *)
(* (0, 0, w, h) and its origin is (x, y) in surface coordinates.           *)
(***************************************************************************)
Rect(x, y, w, h) == [x |-> x, y |-> y, w |-> w, h |-> h]

ZeroRect == Rect(0, 0, 0, 0)

NonEmpty(r) == r.w > 0 /\ r.h > 0

Contains(r, px, py) ==
    /\ NonEmpty(r)
    /\ px >= r.x /\ py >= r.y
    /\ px <= r.x + r.w - 1 /\ py <= r.y + r.h - 1

\* Rectangle::intersection as used by DrawTargetExt::cropped.
Intersection(a, b) ==
    IF NonEmpty(a) /\ NonEmpty(b)
    THEN LET x1 == Max(a.x, b.x)
             y1 == Max(a.y, b.y)
             x2 == Min(a.x + a.w - 1, b.x + b.w - 1)
             y2 == Min(a.y + a.h - 1, b.y + b.h - 1)
         IN IF x1 <= x2 /\ y1 <= y2
            THEN Rect(x1, y1, x2 - x1 + 1, y2 - y1 + 1)
            ELSE ZeroRect
    ELSE IF NonEmpty(b) /\ Contains(b, a.x, a.y) THEN a
    ELSE IF NonEmpty(a) /\ Contains(a, b.x, b.y) THEN b
    ELSE ZeroRect

\* area.cropped(&Rectangle::new((x, y), (w, h))): the requested rectangle is
\* intersected with the parent's bounding box and the origin is translated.
cropped(area, x, y, w, h) ==
    LET r == Intersection(Rect(x, y, w, h), Rect(0, 0, area.w, area.h))
    IN Rect(area.x + r.x, area.y + r.y, r.w, r.h)

(***************************************************************************)
(* Surface writes.  A drawing state s is [log, n, res, uf, w]: the writes  *)
(* issued so far, the number of writes issued by the current step, the     *)
(* Result of the last operation ("ok", an error value of the surface, or   *)
(* "underflow" when a u32 subtraction had a negative result; uf then names *)
(* the subtraction) and the width an Ok(u32) carries.  The plan            *)
(* fp = [at, err] says which write of the step the surface fails, and with *)
(* which error.  A state whose res is not "ok" is the Err (or the panic)   *)
(* that the operator `?` carries out of the function: the operations that  *)
(* follow in the code do not happen, so every operation below leaves such  *)
(* a state as it is.                                                       *)
(***************************************************************************)
Entry(tag, area, kind, args, color) ==
    [i |-> tag.i, seg |-> tag.seg, cell |-> tag.cell, glyph |-> tag.glyph,
     sub |-> tag.sub, area |-> area, kind |-> kind, args |-> args,
     color |-> color]

Write(s, e, fp) ==
    IF s.res # "ok" THEN s
    ELSE [log |-> Append(s.log, e @@ [res |-> IF s.n + 1 # fp.at THEN "ok"
                                              ELSE fp.err]),
          n |-> s.n + 1,
          res |-> IF s.n + 1 # fp.at THEN "ok" ELSE fp.err,
          uf |-> s.uf,
          w |-> 0]

Underflow(s, where) ==
    IF s.res # "ok" THEN s
    ELSE [s EXCEPT !.res = "underflow", !.uf = where]

\* Ok(draw_width)
Ok(s, draw_width) ==
    IF s.res # "ok" THEN s ELSE [s EXCEPT !.w = draw_width]

\* A Result whose Err is not looked at.
Ignored(s) == [s EXCEPT !.res = "ok"]

(***************************************************************************)
(* Font7Seg                                                                *)
(***************************************************************************)
\* A rate r is the rational r[1] / r[2].
new(size, text_color) ==
    [size |-> size,
     text_color |-> text_color,
     background_color |-> None,
     line_width_rate |-> <<1, 5>>,
     top_margin_rate |-> <<1, 20>>,
     left_margin_rate |-> <<1, 20>>,
     point_width_rate |-> <<1, 5>>]

character_size(font) == font.size

\* draw_polygon with the result of the first triangle dropped instead of
\* propagated.
draw_polygon_dropping_error(font, points, area, tag, s, fp) ==
    Write(Write(Ignored(Write(s, Entry(tag, area, "triangle",
                                       <<points[1], points[2], points[6]>>,
                                       font.text_color), fp)),
                Entry(tag, area, "triangle",
                      <<points[3], points[4], points[5]>>,
                      font.text_color), fp),
          Entry(tag, area, "rectangle", <<points[6], points[3]>>,
                font.text_color), fp)

draw_polygon(font, points, area, tag, s, fp) ==
    Write(Write(Write(s, Entry(tag, area, "triangle",
                               <<points[1], points[2], points[6]>>,
                               font.text_color), fp),
                Entry(tag, area, "triangle",
                      <<points[3], points[4], points[5]>>,
                      font.text_color), fp),
          Entry(tag, area, "rectangle", <<points[6], points[3]>>,
                font.text_color), fp)

\* The second half of draw_segment_vert: the hexagon in the trimmed area.
vert_hexagon(font, area, tag, s, fp) ==
    LET width == area.w
        height == area.h
        w_center == Trunc(width, 2)
        v_base_top == Trunc(6 * width, 10)
        v_base_bottom == Trunc(10 * height - 6 * width, 10)
    IN draw_polygon(font,
                    << <<w_center, 0>>,
                       <<width, v_base_top>>,
                       <<width, v_base_bottom>>,
                       <<w_center, height>>,
                       <<0, v_base_bottom>>,
                       <<0, v_base_top>> >>,
                    area, tag, s, fp)

\* draw_segment_vert trimming half of height_diff from each end.
draw_segment_vert_five_percent(font, seg, area0, tag, s, fp) ==
    LET width == area0.w
        height == area0.h
        area_top == Floor(height, 20)
        area_height == Floor(10 * height - height, 10)
    IN vert_hexagon(font,
                    cropped(area0, 0, area_top, width, area_height),
                    [tag EXCEPT !.seg = seg, !.sub = area0], s, fp)

\* area0 is the sub-rectangle of the segment seg.
draw_segment_vert(font, seg, area0, tag, s, fp) ==
    LET width == area0.w
        height == area0.h
        \* height_diff = height * 0.1
        area_top == Floor(height + 10 * width, 20)
        area_height == Floor(10 * height - 2 * height, 10)
    IN vert_hexagon(font,
                    cropped(area0, 0, area_top, width, area_height),
                    [tag EXCEPT !.seg = seg, !.sub = area0], s, fp)

\* The second half of draw_segment_hori: the hexagon in the trimmed area.
hori_hexagon(font, area, tag, s, fp) ==
    LET width == area.w
        height == area.h
        v_center == Trunc(height, 2)
        h_base_left == Trunc(6 * height, 10)
        h_base_right == Trunc(10 * width - 6 * height, 10)
    IN draw_polygon(font,
                    << <<0, v_center>>,
                       <<h_base_left, 0>>,
                       <<h_base_right, 0>>,
                       <<width, v_center>>,
                       <<h_base_right, height>>,
                       <<h_base_left, height>> >>,
                    area, tag, s, fp)

draw_segment_hori(font, seg, area0, tag, s, fp) ==
    LET width == area0.w
        height == area0.h
        half_width == Ceil(6 * height, 10)
    IN IF width - half_width * 2 < 0
       THEN Underflow(s, "draw_segment_hori")
       ELSE hori_hexagon(font,
                         cropped(area0, half_width, 0,
                                 width - half_width * 2, height),
                         [tag EXCEPT !.seg = seg, !.sub = area0], s, fp)

\* ceil(v * rate)
CeilRate(v, r) == Ceil(v * r[1], r[2])

draw_seg_a(font, area, tag, s, fp) ==
    LET width == area.w
        seg_height == CeilRate(width, font.line_width_rate)
    IN draw_segment_hori(font, "a", cropped(area, 0, 0, width, seg_height),
                         tag, s, fp)

draw_seg_b(font, area, tag, s, fp) ==
    LET width == area.w
        height == area.h
        seg_width == CeilRate(width, font.line_width_rate)
        seg_height == Ceil(height, 2)
    IN IF width - seg_width < 0 THEN Underflow(s, "draw_seg_b")
       ELSE draw_segment_vert(font, "b",
                              cropped(area, width - seg_width, 0,
                                      seg_width, seg_height),
                              tag, s, fp)

\* draw_seg_c placed at height / 2, without the half thickness.
draw_seg_c_at_half(font, area, tag, s, fp) ==
    LET width == area.w
        height == area.h
        seg_width == CeilRate(width, font.line_width_rate)
        seg_height == Ceil(height, 2)
        seg_top == Ceil(height, 2)
    IN IF width - seg_width < 0 THEN Underflow(s, "draw_seg_c")
       ELSE draw_segment_vert(font, "c",
                              cropped(area, width - seg_width, seg_top,
                                      seg_width, seg_height),
                              tag, s, fp)

draw_seg_c(font, area, tag, s, fp) ==
    LET width == area.w
        height == area.h
        r == font.line_width_rate
        seg_width == CeilRate(width, r)
        seg_height == Ceil(height, 2)
        \* height / 2 - (width * rate) / 2
        seg_top == Ceil(height * r[2] - width * r[1], 2 * r[2])
    IN IF width - seg_width < 0 THEN Underflow(s, "draw_seg_c")
       ELSE draw_segment_vert(font, "c",
                              cropped(area, width - seg_width, seg_top,
                                      seg_width, seg_height),
                              tag, s, fp)

draw_seg_d(font, area, tag, s, fp) ==
    LET width == area.w
        height == area.h
        r == font.line_width_rate
        \* height - width * rate
        seg_top == Floor(height * r[2] - width * r[1], r[2])
        seg_height == CeilRate(width, r)
    IN draw_segment_hori(font, "d",
                         cropped(area, 0, seg_top, width, seg_height),
                         tag, s, fp)

draw_seg_e(font, area, tag, s, fp) ==
    LET width == area.w
        height == area.h
        r == font.line_width_rate
        seg_width == CeilRate(width, r)
        seg_height == Ceil(height, 2)
        seg_top == Ceil(height * r[2] - width * r[1], 2 * r[2])
    IN draw_segment_vert(font, "e",
                         cropped(area, 0, seg_top, seg_width, seg_height),
                         tag, s, fp)

draw_seg_f(font, area, tag, s, fp) ==
    LET width == area.w
        height == area.h
        seg_width == CeilRate(width, font.line_width_rate)
        seg_height == Ceil(height, 2)
    IN draw_segment_vert(font, "f",
                         cropped(area, 0, 0, seg_width, seg_height),
                         tag, s, fp)

draw_seg_g(font, area, tag, s, fp) ==
    LET width == area.w
        height == area.h
        r == font.line_width_rate
        \* height / 2 - (width * rate) / 2
        seg_top == Floor(height * r[2] - width * r[1], 2 * r[2])
        seg_height == CeilRate(width, r)
    IN draw_segment_hori(font, "g",
                         cropped(area, 0, seg_top, width, seg_height),
                         tag, s, fp)

\* The circle with the radius floored before it is doubled.
point_circle_floored_radius(font, area, tag, s, fp) ==
    LET radius == Floor(area.w, 2)
    IN Write(s, Entry([tag EXCEPT !.seg = "point", !.sub = area], area,
                      "circle",
                      << <<radius, area.h - radius * 2>>, radius * 2 >>,
                      font.text_color), fp)

\* The second half of draw_seg_point: the circle in the narrowed area.
point_circle(font, area, tag, s, fp) ==
    LET width == area.w
        height == area.h
        \* radius = width / 2, center_y = height - radius * 2
        center == <<Floor(width, 2), Floor(2 * height - 2 * width, 2)>>
        diameter == Floor(2 * width, 2)
    IN Write(s, Entry([tag EXCEPT !.seg = "point", !.sub = area], area,
                      "circle", <<center, diameter>>, font.text_color), fp)

draw_seg_point(font, area0, tag, s, fp) ==
    LET width == area0.w
        height == area0.h
        n_width == CeilRate(width, font.point_width_rate)
    IN point_circle(font, cropped(area0, 0, 0, n_width, height), tag, s, fp)

\* The u8 operation a & b.
RECURSIVE BitAnd(_, _)
BitAnd(a, b) ==
    IF a = 0 \/ b = 0 THEN 0
    ELSE (a % 2) * (b % 2) + 2 * BitAnd(a \div 2, b \div 2)

\* SEG_PATS with the pattern of 1 on the left side (e and f).
SEG_PATS_left_one == <<63, 48, 91, 79, 102, 109, 125, 39, 127, 111>>

\* SEG_PATS[d] for d in 0..9 (the tuple is indexed from 1).
SEG_PATS == <<63, 6, 91, 79, 102, 109, 125, 39, 127, 111>>

\* The k-th test of draw_number (k = 0 for segment a .. 6 for segment g).
draw_seg(k, font, area, tag, s, fp) ==
    CASE k = 0 -> draw_seg_a(font, area, tag, s, fp)
      [] k = 1 -> draw_seg_b(font, area, tag, s, fp)
      [] k = 2 -> draw_seg_c(font, area, tag, s, fp)
      [] k = 3 -> draw_seg_d(font, area, tag, s, fp)
      [] k = 4 -> draw_seg_e(font, area, tag, s, fp)
      [] k = 5 -> draw_seg_f(font, area, tag, s, fp)
      [] k = 6 -> draw_seg_g(font, area, tag, s, fp)

\* The chain of `if seg_pat & bit != 0 { self.draw_seg_x(&mut area)?; }`
\* from test k on.
RECURSIVE draw_segments(_, _, _, _, _, _, _)
draw_segments(k, seg_pat, font, area, tag, s, fp) ==
    IF k > 6 THEN s
    ELSE draw_segments(k + 1, seg_pat, font, area, tag,
                       IF BitAnd(seg_pat, 2 ^ k) # 0
                       THEN draw_seg(k, font, area, tag, s, fp)
                       ELSE s,
                       fp)

\* The second half of draw_number: the glyph in the inset area, and the
\* drawn width; size_width is size.width.
draw_glyph(font, num, point, all_area_width, size_width, area, tag, s, fp) ==
    IF point
    THEN Ok(draw_seg_point(font, area, [tag EXCEPT !.glyph = area], s, fp),
            all_area_width - size_width
                + CeilRate(size_width, font.point_width_rate))
    ELSE Ok(draw_segments(0, SEG_PATS[(num % 10) + 1], font, area,
                          [tag EXCEPT !.glyph = area], s, fp),
            all_area_width)

\* Result: the drawing state, with the drawn width in w when res = "ok".
draw_number(font, num, point, area, tag, s, fp) ==
    LET width == area.w
        height == area.h
        top_margin == CeilRate(height, font.top_margin_rate)
        left_margin == CeilRate(width, font.left_margin_rate)
        top_left == <<top_margin, left_margin>>
        size_width == width - left_margin * 2
        size_height == height - top_margin * 2
    IN IF size_width < 0 \/ size_height < 0
       THEN Underflow(s, "draw_number")
       ELSE draw_glyph(font, num, point, width, size_width,
                       cropped(area, top_left[1], top_left[2],
                               size_width, size_height),
                       tag, s, fp)

calc_point_width(font) ==
    LET W == font.size[1]
        lm == font.left_margin_rate
        pw == font.point_width_rate
        \* left_margin = W * lm; p_width = (W - left_margin * 2) * pw;
        \* (p_width + left_margin * 2).ceil()
        num == (W * lm[2] - 2 * W * lm[1]) * pw[1] + 2 * W * lm[1] * pw[2]
    IN Ceil(num, lm[2] * pw[2])

\* set_text_color storing the argument whether or not a colour is supplied.
set_text_color_unconditional(font, text_color) ==
    [font EXCEPT !.text_color = text_color]

set_text_color(font, text_color) ==
    IF text_color # None
    THEN [font EXCEPT !.text_color = text_color]
    ELSE font

set_background_color(font, background_color) ==
    [font EXCEPT !.background_color = background_color]

\* Characters are one-character strings.
DigitChars == {"0", "1", "2", "3", "4", "5", "6", "7", "8", "9"}

is_ascii_digit(c) == c \in DigitChars

to_digit(c) ==
    CASE c = "0" -> 0 [] c = "1" -> 1 [] c = "2" -> 2 [] c = "3" -> 3
      [] c = "4" -> 4 [] c = "5" -> 5 [] c = "6" -> 6 [] c = "7" -> 7
      [] c = "8" -> 8 [] c = "9" -> 9

\* The drawing state at the start of a step and the tag of a cell's writes.
NoWrites(l) == [log |-> l, n |-> 0, res |-> "ok", uf |-> "none", w |-> 0]

CellTag(i, cell) ==
    [i |-> i, seg |-> "bg", cell |-> cell, glyph |-> cell, sub |-> cell]

\* The body of the loop of draw_string in the cell num_target, for the i-th
\* character c.  Result: the drawing state, with the advance w of the
\* cursor when res = "ok".
clear_background(font, i, num_target, s, fp) ==
    IF font.background_color # None
    THEN Write(s, Entry(CellTag(i, num_target), num_target, "clear", <<>>,
                        font.background_color), fp)
    ELSE s

draw_cell(font, c, i, num_target, log, fp) ==
    IF is_ascii_digit(c)
    THEN draw_number(font, to_digit(c), FALSE, num_target,
                     CellTag(i, num_target),
                     clear_background(font, i, num_target, NoWrites(log), fp),
                     fp)
    ELSE IF c = "."
    THEN draw_number(font, 0, TRUE, num_target, CellTag(i, num_target),
                     clear_background(font, i, num_target, NoWrites(log), fp),
                     fp)
    ELSE Ok(clear_background(font, i, num_target, NoWrites(log), fp), 0)

\* One iteration of the loop of draw_string, for the i-th character c with
\* the cursor at cur_pos.
draw_string_char(font, c, i, cur_pos, target, log, fp) ==
    draw_cell(font, c, i,
              cropped(target, cur_pos[1], cur_pos[2],
                      font.size[1], font.size[2]),
              log, fp)

draw_whitespace(font, width, pos) ==
    <<pos[1] + font.size[1] * width, pos[2]>>

RECURSIVE measure_width(_, _, _)
measure_width(font, text, width) ==
    IF text = <<>> THEN width
    ELSE measure_width(font, Tail(text),
            IF is_ascii_digit(Head(text)) THEN width + font.size[1]
            ELSE IF Head(text) = "." THEN width + calc_point_width(font)
            ELSE width)

\* TextMetrics for a text of the measured width.
text_metrics(font, pos, width) ==
    [bounding_box |-> Rect(pos[1], pos[2], width, font.size[2]),
     next_position |-> <<pos[1] + width, pos[2]>>]

measure_string(font, text, pos) ==
    text_metrics(font, pos, measure_width(font, text, 0))

line_height(font) == font.size[2]

(***************************************************************************)
(* Inputs                                                                  *)
(***************************************************************************)
MaxLen == 2

MaxNum == 12

Sizes == {<<10, 20>>, <<25, 50>>}

Colors == {"red", "green"}

OptColors == Colors \cup {None}

\* Values of the surface's error type D::Error.
Errors == {"EIO", "EBUSY"}

\* "8" lights every segment; "x" is not a glyph of the font.
Alphabet == {"8", ".", "x"}

Texts == UNION {[1..n -> Alphabet] : n \in 0..MaxLen}

\* Target surfaces (width, height) and text origins.
Surfaces == {<<80, 56>>, <<28, 30>>}

Positions == {<<0, 0>>, <<2, 1>>}

\* u32 arguments of draw_number: small values and the largest one the
\* checker's integers hold.
Nums == (0..MaxNum) \cup {2147483647}

\* What the surface does during one step: no write fails (at = 0), or the
\* at-th of the n writes of the step fails with error err.
NoFail == [at |-> 0, err |-> "none"]

FailPlans(n) == {NoFail} \cup {[at |-> k, err |-> e] : k \in 1..n, e \in Errors}

\* The outcome of a u32 subtraction with a negative result: a panic when
\* the build checks overflow, otherwise a wrapped value of at least 2^31,
\* which the model does not follow any further.
UnderflowOutcomes == {"panic", "wrapped"}

(***************************************************************************)
(* State                                                                   *)
(*   font  the Font7Seg value                                              *)
(*   op    the operation being performed or just performed, [name, arg]    *)
(*   pc    "idle" (the caller holds the font), "draw_string" (inside the   *)
(*         loop), "returned" (an operation has delivered ret) or           *)
(*         "panicked"                                                      *)
(*   call  the activation of draw_string: text, pos, target, idx, cur_pos  *)
(*   log   the surface writes of the current draw call                     *)
(*   ret   the outcome of the operation, [status, val, uf]                 *)
(***************************************************************************)
VARIABLES font, op, pc, call, log, ret

vars == <<font, op, pc, call, log, ret>>

NoCall == [text |-> <<>>, pos |-> <<0, 0>>, target |-> <<0, 0>>,
           idx |-> 0, cur_pos |-> <<0, 0>>]

Ret(status, val) == [status |-> status, val |-> val, uf |-> "none"]

SurfaceArea(target) == Rect(0, 0, target[1], target[2])

Init ==
    \E size \in Sizes, c \in Colors :
        /\ font = new(size, c)
        /\ op = [name |-> "new", arg |-> c]
        /\ pc = "returned"
        /\ call = NoCall
        /\ log = <<>>
        /\ ret = Ret("ok", <<>>)

\* The caller takes the result and is free to start the next operation.
Return ==
    /\ pc = "returned"
    /\ pc' = "idle"
    /\ op' = [name |-> "none", arg |-> None]
    /\ call' = NoCall
    /\ log' = <<>>
    /\ ret' = Ret("none", <<>>)
    /\ UNCHANGED font

SetTextColor ==
    \E c \in OptColors :
        /\ pc = "idle"
        /\ font' = set_text_color(font, c)
        /\ op' = [name |-> "set_text_color", arg |-> c]
        /\ ret' = Ret("ok", <<>>)
        /\ pc' = "returned"
        /\ UNCHANGED <<call, log>>

SetBackgroundColor ==
    \E c \in OptColors :
        /\ pc = "idle"
        /\ font' = set_background_color(font, c)
        /\ op' = [name |-> "set_background_color", arg |-> c]
        /\ ret' = Ret("ok", <<>>)
        /\ pc' = "returned"
        /\ UNCHANGED <<call, log>>

CharacterSize ==
    /\ pc = "idle"
    /\ op' = [name |-> "character_size", arg |-> None]
    /\ ret' = Ret("ok", character_size(font))
    /\ pc' = "returned"
    /\ UNCHANGED <<font, call, log>>

LineHeight ==
    /\ pc = "idle"
    /\ op' = [name |-> "line_height", arg |-> None]
    /\ ret' = Ret("ok", line_height(font))
    /\ pc' = "returned"
    /\ UNCHANGED <<font, call, log>>

MeasureString ==
    \E text \in Texts, pos \in Positions :
        /\ pc = "idle"
        /\ op' = [name |-> "measure_string", arg |-> None]
        /\ ret' = Ret("ok", measure_string(font, text, pos))
        /\ call' = [NoCall EXCEPT !.text = text, !.pos = pos]
        /\ pc' = "returned"
        /\ UNCHANGED <<font, log>>

DrawWhitespace ==
    \E width \in 0..MaxLen, pos \in Positions :
        /\ pc = "idle"
        /\ op' = [name |-> "draw_whitespace", arg |-> None]
        /\ ret' = Ret("ok", draw_whitespace(font, width, pos))
        /\ call' = [NoCall EXCEPT !.pos = pos, !.idx = width]
        /\ pc' = "returned"
        /\ UNCHANGED <<font, log>>

\* How a draw call ends when its drawing state is r (r.res # "ok").
Fails(r) ==
    IF r.res = "underflow"
    THEN \E u \in UnderflowOutcomes :
            /\ ret' = [status |-> u, val |-> <<>>, uf |-> r.uf]
            /\ pc' = IF u = "panic" THEN "panicked" ELSE "returned"
    ELSE /\ ret' = Ret("err", r.res)
         /\ pc' = "returned"

\* draw_number applied to the cell at pos of a surface.
DrawNumber ==
    /\ pc = "idle"
    /\ \E num \in Nums, point \in BOOLEAN, target \in Surfaces,
          pos \in Positions :
        \E cell \in {cropped(SurfaceArea(target), pos[1], pos[2],
                             font.size[1], font.size[2])} :
        \E n \in {draw_number(font, num, point, cell, CellTag(1, cell),
                              NoWrites(<<>>), NoFail).n} :
        \E fp \in FailPlans(n) :
        \E r \in {draw_number(font, num, point, cell, CellTag(1, cell),
                              NoWrites(<<>>), fp)} :
            /\ op' = [name |-> "draw_number", arg |-> <<num, point>>]
            /\ log' = r.log
            /\ call' = [NoCall EXCEPT !.pos = pos, !.target = target]
            /\ IF r.res = "ok"
               THEN ret' = Ret("ok", r.w) /\ pc' = "returned"
               ELSE Fails(r)
            /\ UNCHANGED font

DrawStringCall ==
    \E text \in Texts, pos \in Positions, target \in Surfaces :
        /\ pc = "idle"
        /\ pc' = "draw_string"
        /\ op' = [name |-> "draw_string", arg |-> None]
        /\ call' = [text |-> text, pos |-> pos, target |-> target,
                    idx |-> 1, cur_pos |-> pos]
        /\ log' = <<>>
        /\ ret' = Ret("running", <<>>)
        /\ UNCHANGED font

DrawStringChar ==
    /\ pc = "draw_string"
    /\ call.idx <= Len(call.text)
    /\ \E n \in {draw_string_char(font, call.text[call.idx], call.idx,
                                  call.cur_pos, SurfaceArea(call.target),
                                  log, NoFail).n} :
       \E fp \in FailPlans(n) :
       \E r \in {draw_string_char(font, call.text[call.idx], call.idx,
                                  call.cur_pos, SurfaceArea(call.target),
                                  log, fp)} :
            /\ log' = r.log
            /\ IF r.res = "ok"
               THEN /\ call' = [call EXCEPT
                                  !.idx = call.idx + 1,
                                  !.cur_pos = <<call.cur_pos[1] + r.w,
                                                call.cur_pos[2]>>]
                    /\ UNCHANGED <<pc, ret>>
               ELSE /\ Fails(r)
                    /\ UNCHANGED call
            /\ UNCHANGED <<font, op>>

DrawStringReturn ==
    /\ pc = "draw_string"
    /\ call.idx > Len(call.text)
    /\ ret' = Ret("ok", call.cur_pos)
    /\ pc' = "returned"
    /\ UNCHANGED <<font, op, call, log>>

Next ==
    \/ Return
    \/ SetTextColor
    \/ SetBackgroundColor
    \/ CharacterSize
    \/ LineHeight
    \/ MeasureString
    \/ DrawWhitespace
    \/ DrawNumber
    \/ DrawStringCall
    \/ DrawStringChar
    \/ DrawStringReturn

Spec == Init /\ [][Next]_vars

(***************************************************************************)
(* Properties                                                              *)
(***************************************************************************)
Drawing == op.name \in {"draw_string", "draw_number"}

Returned(status) == pc = "returned" /\ ret.status = status

\* The surface contains every cell of the text of the current call.
LargeEnough ==
    /\ call.pos[1] + Len(call.text) * font.size[1] <= call.target[1]
    /\ call.pos[2] + font.size[2] <= call.target[2]

\* W for a digit, calc_point_width() for '.', 0 for anything else.
RECURSIVE SumAdvance(_)
SumAdvance(text) ==
    IF text = <<>> THEN 0
    ELSE (IF Head(text) \in DigitChars THEN font.size[1]
          ELSE IF Head(text) = "." THEN calc_point_width(font)
          ELSE 0) + SumAdvance(Tail(text))

\* C1: on a surface that contains every cell, the cursor draw_string returns
\* is the next_position of measure_string for the same text and origin: x
\* advanced by W per digit, by calc_point_width() per '.', by 0 otherwise,
\* and y unchanged.
C1_DrawMatchesMeasure ==
    (op.name = "draw_string" /\ Returned("ok") /\ LargeEnough) =>
        /\ ret.val = measure_string(font, call.text, call.pos).next_position
        /\ ret.val = <<call.pos[1] + SumAdvance(call.text), call.pos[2]>>

\* C2: for a character that is neither a digit nor '.', whatever the font's
\* background colour, the step of draw_string issues no surface write and
\* leaves the cursor where it is.
C2_UnsupportedIssuesNothing ==
    [][(/\ pc = "draw_string"
        /\ call.idx <= Len(call.text)
        /\ call.text[call.idx] \notin DigitChars \cup {"."})
       => (log' = log /\ call'.cur_pos = call.cur_pos)]_vars

\* C3: draw_string fails fast.  A failed surface write is the last write of
\* the call, it belongs to the character being processed, the call returns
\* the surface's error as it is and no cursor; an error is returned only
\* for a failed write; and a call that returns a cursor has processed every
\* character without a failed write and returns the final cursor.
C3_FailFast ==
    op.name = "draw_string" =>
        /\ \A j \in 1..Len(log) :
              log[j].res # "ok" =>
                  /\ j = Len(log)
                  /\ log[j].i = call.idx
                  /\ Returned("err")
                  /\ ret.val = log[j].res
        /\ Returned("err") => (log # <<>> /\ log[Len(log)].res # "ok")
        /\ Returned("ok") =>
              /\ call.idx = Len(call.text) + 1
              /\ ret.val = call.cur_pos
              /\ \A j \in 1..Len(log) : log[j].res = "ok"

\* A write of the second character fails after earlier writes succeeded.
C3_Witness ==
    /\ op.name = "draw_string"
    /\ Returned("err")
    /\ call.idx = 2
    /\ Len(log) > 3
    /\ log[Len(log)].kind = "rectangle"
    /\ ret.val = log[Len(log)].res

Segs == <<"a", "b", "c", "d", "e", "f", "g">>

\* The segments a seven-segment display lights for the digits 0..9 (the
\* tuple is indexed from 1).
Lit ==
    << {"a", "b", "c", "d", "e", "f"},
       {"b", "c"},
       {"a", "b", "d", "e", "g"},
       {"a", "b", "c", "d", "g"},
       {"b", "c", "f", "g"},
       {"a", "c", "d", "f", "g"},
       {"a", "c", "d", "e", "f", "g"},
       {"a", "b", "c", "f"},
       {"a", "b", "c", "d", "e", "f", "g"},
       {"a", "b", "c", "d", "f", "g"} >>

ExpectedSegs(num) ==
    LET lit(x) == x \in Lit[(num % 10) + 1]
    IN SelectSeq(Segs, lit)

RECURSIVE Dedup(_)
Dedup(s) ==
    IF Len(s) <= 1 THEN s
    ELSE IF s[1] = s[2] THEN Dedup(Tail(s))
    ELSE <<s[1]>> \o Dedup(Tail(s))

\* The placement functions that have written for character i, in order.
SegNames(i) ==
    LET mine(e) == e.i = i /\ e.seg # "bg"
        ent == SelectSeq(log, mine)
    IN Dedup([j \in 1..Len(ent) |-> ent[j].seg])

IsPrefix(p, s) == Len(p) <= Len(s) /\ SubSeq(s, 1, Len(p)) = p

\* C4: for every u32 num, a digit is rendered from the 7-bit mask of
\* num mod 10 (bit 0..6 = a..g): the placement functions invoked are those
\* of the lit segments and no others, in the order a..g (a call cut short
\* by an error has invoked a prefix of them); 8 lights all seven segments,
\* 1 only b and c, 0 all but g.
C4_GlyphSelection ==
    /\ \A d \in 0..9 :
          /\ SEG_PATS[d + 1] < 2 ^ 7
          /\ {Segs[k + 1] : k \in {b \in 0..6 :
                                    (SEG_PATS[d + 1] \div 2 ^ b) % 2 = 1}}
                = Lit[d + 1]
    /\ (op.name = "draw_number" /\ op.arg[2] = FALSE) =>
          IF Returned("ok")
          THEN SegNames(1) = ExpectedSegs(op.arg[1])
          ELSE IsPrefix(SegNames(1), ExpectedSegs(op.arg[1]))
    /\ op.name = "draw_string" =>
          \A i \in 1..Len(call.text) :
              call.text[i] \in DigitChars =>
                  IF i < call.idx
                  THEN SegNames(i) = ExpectedSegs(to_digit(call.text[i]))
                  ELSE IsPrefix(SegNames(i),
                                ExpectedSegs(to_digit(call.text[i])))

\* draw_number(11, false, ..) has drawn the segments of 1.
C4_Witness ==
    /\ op.name = "draw_number"
    /\ op.arg = <<11, FALSE>>
    /\ Returned("ok")
    /\ SegNames(1) = <<"b", "c">>
    /\ Len(log) = 6

\* C5: a font made by new(size, c0) has foreground c0, no background and
\* the default rates; set_text_color replaces the foreground when a colour
\* is supplied and leaves it otherwise, set_background_color stores its
\* argument as it is, and no other step changes either; no step changes the
\* cell size, line_height() or a rate.
C5_Frame ==
    /\ [](op.name = "new" =>
            font = [size |-> font.size, text_color |-> op.arg,
                    background_color |-> None,
                    line_width_rate |-> <<1, 5>>,
                    top_margin_rate |-> <<1, 20>>,
                    left_margin_rate |-> <<1, 20>>,
                    point_width_rate |-> <<1, 5>>])
    /\ [][/\ font'.size = font.size
          /\ line_height(font') = line_height(font)
          /\ character_size(font') = character_size(font)
          /\ font'.line_width_rate = font.line_width_rate
          /\ font'.top_margin_rate = font.top_margin_rate
          /\ font'.left_margin_rate = font.left_margin_rate
          /\ font'.point_width_rate = font.point_width_rate
          /\ font'.text_color =
                IF pc = "idle" /\ op'.name = "set_text_color"
                   /\ op'.arg # None
                THEN op'.arg ELSE font.text_color
          /\ font'.background_color =
                IF pc = "idle" /\ op'.name = "set_background_color"
                THEN op'.arg ELSE font.background_color]_vars

\* set_text_color(None) has returned on a font whose background was set.
C5_Witness ==
    /\ op.name = "set_text_color"
    /\ op.arg = None
    /\ pc = "returned"
    /\ font.text_color \in Colors
    /\ font.background_color # None

\* C6: the glyph rectangle of draw_number is the cell inset by
\* x = ceil(W * left_margin_rate) and y = ceil(H * top_margin_rate), of size
\* (W - 2x, H - 2y).
C6_InsetRectangle ==
    Drawing =>
        \A j \in 1..Len(log) :
            log[j].seg # "bg" =>
                LET c == log[j].cell
                    mx == Ceil(c.w * font.left_margin_rate[1],
                               font.left_margin_rate[2])
                    my == Ceil(c.h * font.top_margin_rate[1],
                               font.top_margin_rate[2])
                IN log[j].glyph
                       = Rect(c.x + mx, c.y + my, c.w - 2 * mx, c.h - 2 * my)

VertSegs == {"b", "c", "e", "f"}

\* C7 as stated: the hexagon of a vertical segment is drawn in the
\* sub-rectangle less 5% of its height at the top and 5% at the bottom, at
\* full width.
C7_TrimsTenPercent ==
    Drawing =>
        \A j \in 1..Len(log) :
            log[j].seg \in VertSegs =>
                LET s == log[j].sub
                    a == log[j].area
                    five == {Floor(s.h, 20), Ceil(s.h, 20)}
                IN /\ a.x = s.x /\ a.w = s.w
                   /\ a.y - s.y \in five
                   /\ (s.y + s.h) - (a.y + a.h) \in five

\* C7, amended: the hexagon of a vertical segment is drawn in the rows
\* [t, min(h, t + floor(0.8 * h))) of the (w, h) sub-rectangle, with
\* t = floor((0.1 * h + w) / 2), at full width; in no pixel when those rows
\* are none.
C7_TrimsTwentyPercentOffsetByWidth ==
    Drawing =>
        \A j \in 1..Len(log) :
            log[j].seg \in VertSegs =>
                LET s == log[j].sub
                    a == log[j].area
                    t == (s.h + 10 * s.w) \div 20
                    rows == (8 * s.h) \div 10
                IN IF s.w > 0 /\ rows > 0 /\ t < s.h
                   THEN a = Rect(s.x, s.y + t, s.w, Min(rows, s.h - t))
                   ELSE ~NonEmpty(a)

\* A vertical segment was drawn further down than 5% of its sub-rectangle.
C7_Witness ==
    /\ Drawing
    /\ \E j \in 1..Len(log) :
          /\ log[j].seg = "c"
          /\ log[j].res = "ok"
          /\ NonEmpty(log[j].area)
          /\ log[j].area.y - log[j].sub.y > Ceil(log[j].sub.h, 20)
          /\ log[j].area.h < log[j].sub.h - Ceil(log[j].sub.h, 10)

\* C8 as stated: the circle of the decimal point has diameter
\* 2 * floor(sub_width / 2) and centre (floor(sub_width / 2),
\* sub_height - diameter), sub_width being ceil(cell_width * ratio).
C8_PointFlooredDiameter ==
    Drawing =>
        \A j \in 1..Len(log) :
            log[j].kind = "circle" =>
                LET a == log[j].area
                    d == 2 * (a.w \div 2)
                IN log[j].args = << <<a.w \div 2, a.h - d>>, d >>

\* C8, amended: the circle has diameter sub_width and centre
\* (floor(sub_width / 2), sub_height - sub_width), where sub_width is
\* ceil(cell_width * point_width_rate) and sub_height the cell height (both
\* 0 for an empty glyph cell).
C8_PointDiameterIsSubWidth ==
    Drawing =>
        \A j \in 1..Len(log) :
            log[j].kind = "circle" =>
                LET a == log[j].area
                    g == log[j].glyph
                IN /\ a.w = IF NonEmpty(g) THEN Ceil(g.w, 5) ELSE 0
                   /\ a.h = IF NonEmpty(g) THEN g.h ELSE 0
                   /\ a.x = g.x /\ a.y = g.y
                   /\ log[j].args = << <<a.w \div 2, a.h - a.w>>, a.w >>

\* A decimal point of odd sub_width was drawn.
C8_Witness ==
    /\ Drawing
    /\ \E j \in 1..Len(log) :
          /\ log[j].kind = "circle"
          /\ log[j].res = "ok"
          /\ log[j].area.w % 2 = 1
          /\ log[j].args[2] = log[j].area.w

C10_NoUnderflow ==
    (font.size[1] >= 20 /\ font.size[2] >= 20) =>
        ~(Drawing /\ ret.status \in UnderflowOutcomes)

====
